---- MODULE Spec2Model ----
(***************************************************************************)
(* Model of niftynet/application/autoencoder_application.py:               *)
(* AutoencoderApplication, the mode-dispatch lifecycle                     *)
(*   __init__ -> initialise_dataset_loader -> initialise_sampler ->        *)
(*   initialise_network -> connect_data_and_network -> interpret_output.   *)
(* Collaborators (reader, sampler, network, aggregator, collectors) are    *)
(* represented by the calls the application makes on them.                 *)
(* The engine drives one instance: it sets the dataset up once, may call   *)
(* initialise_sampler repeatedly, builds the network, connects once per    *)
(* device and then interprets batch outputs; an operation that raises      *)
(* ends the run, except that interpret_output may still be called on an    *)
(* instance whose setup failed (its configuration was already stored).     *)
(***************************************************************************)
EXTENDS Integers, Sequences, FiniteSets, TLC

(* ---------------------------- bounds ----------------------------------- *)
MaxBatchSize == 2        \* net_param.batch_size ranges over 1..MaxBatchSize
MaxInterpolations == 2   \* autoencoder_param.n_interpolations in 1..Max
MaxSamplerCalls == 2     \* how often the engine may call initialise_sampler
MaxDevices == 2          \* how often connect_data_and_network runs (towers)
MaxBatches == 2          \* how many batch outputs are interpreted
MaxLoc == 1              \* location entries range over 0..MaxLoc
NumLocCols == 3          \* columns of a location matrix fed back by the engine
NetOutLen == 8           \* length of the network's output tuple
LatentDim == 2           \* second dimension of the latent tensor
WindowSize == 3          \* action_param.spatial_window_size == (WindowSize,)
MaxFeatureDim == 3       \* feature batches are batch_size x 1..MaxFeatureDim
MaxDataLoss == 1         \* the data loss of a run ranges over 1..MaxDataLoss
MaxRegLoss == 1          \* regularisation losses range over 1..MaxRegLoss + 1
Poison == 99             \* marker stored in every location column >= 2

(* ------------------------ module constants ----------------------------- *)
SUPPORTED_INPUT == {"image", "feature"}
SUPPORTED_INFERENCE == {"encode", "encode-decode", "sample",
                        "linear_interpolation"}
CONSOLE == "CONSOLE"
TF_SUMMARIES == "TF_SUMMARIES"

\* inference_type strings a configuration may carry
InferenceTypeStrings == SUPPORTED_INFERENCE \cup {"reconstruct"}

\* Python None / unset attribute, for string-valued attributes
None == "None"
Unset == "UNSET"

(* ----------------------- collaborator values --------------------------- *)
\* self.reader before initialise_dataset_loader assigned it
NoReader == [kind |-> Unset, channels |-> {}, initialised |-> FALSE,
             layers_bound |-> FALSE, layers |-> << >>]
\* the empty tuple () assigned in 'sample' mode
EmptyTuple == [kind |-> "()", channels |-> {}, initialised |-> FALSE,
               layers_bound |-> FALSE, layers |-> << >>]
\* ImageReader(names)
ImageReader(names) == [kind |-> "ImageReader", channels |-> names,
                       initialised |-> FALSE, layers_bound |-> FALSE,
                       layers |-> << >>]
\* Python truth value of self.reader: () is false, an ImageReader is true
Truthy(r) == r.kind = "ImageReader"

NoNet == [kind |-> Unset, w_regularizer |-> None, b_regularizer |-> None,
          reg_losses |-> << >>]
NoDecoder == [kind |-> Unset, id |-> 0, has_reader |-> FALSE,
              reader_channels |-> {}]

\* str.lower() on the regularisation-type strings of the configuration
Lower(s) == CASE s = "L2" -> "l2"
              [] s = "L1" -> "l1"
              [] OTHER -> s

VARIABLES
  is_training,        \* self.is_training
  net_param,          \* self.net_param
  action_param,       \* self.action_param
  data_param,         \* self.data_param
  autoencoder_param,  \* self.autoencoder_param
  infer_type,         \* self._infer_type
  reader,             \* self.reader
  sampler,            \* self.sampler
  net,                \* self.net
  output_decoder,     \* self.output_decoder
  outputs_collector,  \* the outputs_collector argument (declared outputs)
  gradients_collector,\* the gradients_collector argument
  run,                \* what the latest connect_data_and_network run did
  decode_calls,       \* arguments of each output_decoder.decode_batch call
  last_result,        \* what the latest interpret_output did
  events,             \* collaborator calls, in program order
  raised,             \* exception that left the latest operation, or "none"
  stage,              \* position of the engine in the lifecycle
  sampler_calls,      \* number of initialise_sampler calls so far
  twin                \* a second training instance, given the same calls
                      \* and inputs but another inference type

vars == << is_training, net_param, action_param, data_param,
           autoencoder_param, infer_type, reader, sampler, net,
           output_decoder, outputs_collector, gradients_collector, run,
           decode_calls, last_result, events, raised, stage, sampler_calls,
           twin >>

(* --------------------------- configurations ---------------------------- *)
NetParams == [batch_size : 1..MaxBatchSize,
              reg_type : {"L2", "l1"},
              decay : {0, 1},
              name : {"vae"}]
ActionParams == [random_flipping_axes : {-1, 0},
                 scaling_percentage : {<< >>, <<-10, 10>>},
                 rotation_angle : {<< >>, <<-10, 10>>},
                 spatial_window_size : {<<WindowSize>>}]
TaskParams == [inference_type : InferenceTypeStrings,
               n_interpolations : 1..MaxInterpolations,
               noise_stddev : {1}]
NoTaskParam == [inference_type : {Unset}, n_interpolations : {0},
                noise_stddev : {0}]

NoRun == [n |-> 0, mode |-> Unset, first_output |-> 0, first_event |-> 0,
          popped |-> FALSE,
          pop_slot |-> -1, channel_read |-> None, location_read |-> None,
          dummy_passes |-> 0, decoder_only |-> 0, feature_elements |-> 0,
          latent_shape |-> << >>, decoder_input |-> None,
          decoder_input_shape |-> << >>]
NoResult == [n |-> 0, returned |-> None, read_names |-> {},
             decoded |-> FALSE, mode |-> Unset, batch_location |-> << >>]

\* AutoencoderApplication.__init__
\* the twin after __init__: the attributes that lines 25-35 set
NoTwin(tp) ==
  [autoencoder_param |-> tp, infer_type |-> Unset, reader |-> NoReader,
   sampler |-> << >>, output_decoder |-> NoDecoder,
   outputs_collector |-> << >>, gradients_collector |-> << >>,
   last_result |-> NoResult, raised |-> "none"]

Init ==
  /\ is_training \in BOOLEAN
  /\ net_param \in NetParams
  /\ action_param \in ActionParams
  /\ data_param = None
  /\ autoencoder_param \in NoTaskParam
  /\ infer_type = Unset
  /\ reader = NoReader
  /\ sampler = << >>
  /\ net = NoNet
  /\ output_decoder = NoDecoder
  /\ outputs_collector = << >>
  /\ gradients_collector = << >>
  /\ run = NoRun
  /\ decode_calls = << >>
  /\ last_result = NoResult
  /\ events = << >>
  /\ raised = "none"
  /\ stage = "constructed"
  /\ sampler_calls = 0
  /\ twin = NoTwin(autoencoder_param)

(* ------------------- util_common.look_up_operations -------------------- *)
\* exact-match lookup of a type string in a set of supported strings
LookupOk(type_str, supported) == type_str \in supported
look_up_operations(type_str, supported) ==
  IF LookupOk(type_str, supported) THEN type_str ELSE "ConfigurationError"

(* ---------------------- initialise_dataset_loader ---------------------- *)
\* SetupInferType that stores the default 'encode' instead of the lookup
SetupInferType_Default(training, task_param) ==
  IF ~training THEN "encode" ELSE None
\* SetupInferType that looks the inference type up when training as well
SetupInferType_IgnoreTraining(training, task_param) ==
  look_up_operations(task_param.inference_type, SUPPORTED_INFERENCE)
\* lines 41-45: the inference type established at setup
SetupInferType(training, task_param) ==
  IF ~training
  THEN look_up_operations(task_param.inference_type, SUPPORTED_INFERENCE)
  ELSE None

\* SelectReader with the interpolation reader scoped to the image channel
SelectReader_InterpolateImage(training, it, old) ==
  LET r1 == IF training THEN ImageReader({"image"}) ELSE old
  IN  IF it \in {"encode", "encode-decode"} THEN ImageReader({"image"})
      ELSE IF it = "sample" THEN EmptyTuple
      ELSE IF it = "linear_interpolation" THEN ImageReader({"image"})
      ELSE r1
\* SelectReader with an image reader created in 'sample' mode as well
SelectReader_SampleReads(training, it, old) ==
  LET r1 == IF training THEN ImageReader({"image"}) ELSE old
  IN  IF it \in {"encode", "encode-decode", "sample"}
      THEN ImageReader({"image"})
      ELSE IF it = "linear_interpolation" THEN ImageReader({"feature"})
      ELSE r1
\* lines 48-55: the reader selected from the training flag and _infer_type
SelectReader(training, it, old) ==
  LET r1 == IF training THEN ImageReader({"image"}) ELSE old
  IN  IF it \in {"encode", "encode-decode"} THEN ImageReader({"image"})
      ELSE IF it = "sample" THEN EmptyTuple
      ELSE IF it = "linear_interpolation" THEN ImageReader({"feature"})
      ELSE r1

\* AugmentationLayers with rotation appended before scaling
AugmentationLayers_RotationFirst(training, ap) ==
  IF training
  THEN (IF ap.random_flipping_axes # -1 THEN <<"RandomFlipLayer">>
        ELSE << >>)
       \o (IF ap.rotation_angle # << >>
           THEN <<"RandomRotationLayer">> ELSE << >>)
       \o (IF ap.scaling_percentage # << >>
           THEN <<"RandomSpatialScalingLayer">> ELSE << >>)
  ELSE << >>
\* lines 60-72: the augmentation layers, in append order
AugmentationLayers(training, ap) ==
  IF training
  THEN (IF ap.random_flipping_axes # -1 THEN <<"RandomFlipLayer">>
        ELSE << >>)
       \o (IF ap.scaling_percentage # << >>
           THEN <<"RandomSpatialScalingLayer">> ELSE << >>)
       \o (IF ap.rotation_angle # << >>
           THEN <<"RandomRotationLayer">> ELSE << >>)
  ELSE << >>

\* the inference types in a cycle: the twin is configured with the
\* successor of the instance's own inference type
InferenceTypeCycle ==
  <<"encode", "encode-decode", "sample", "linear_interpolation",
    "reconstruct">>
Other(it) ==
  LET i == CHOOSE k \in DOMAIN InferenceTypeCycle :
             InferenceTypeCycle[k] = it
  IN  InferenceTypeCycle[(i % Len(InferenceTypeCycle)) + 1]
\* lines 37-73 on the twin, with the other inference type
TwinLoad(tw, training, task_param, ap) ==
  LET tp2 == [task_param EXCEPT !.inference_type = Other(@)]
  IN  IF ~training /\ ~LookupOk(tp2.inference_type, SUPPORTED_INFERENCE)
      THEN [tw EXCEPT !.autoencoder_param = tp2,
                      !.raised = "ConfigurationError"]
      ELSE LET it == SetupInferType(training, tp2)
               r0 == SelectReader(training, it, tw.reader)
           IN  [tw EXCEPT
                  !.autoencoder_param = tp2,
                  !.infer_type = it,
                  !.reader =
                     IF Truthy(r0)
                     THEN [r0 EXCEPT
                             !.initialised = TRUE,
                             !.layers_bound = TRUE,
                             !.layers = AugmentationLayers(training, ap)]
                     ELSE r0,
                  !.raised = "none"]

initialise_dataset_loader ==
  /\ stage = "constructed"
  /\ \E dp \in {"data_param"}, task_param \in TaskParams :
       /\ twin' = IF is_training
                  THEN TwinLoad(twin, is_training, task_param, action_param)
                  ELSE twin
       /\ data_param' = dp
       /\ autoencoder_param' = task_param
       /\ IF ~is_training
             /\ ~LookupOk(task_param.inference_type, SUPPORTED_INFERENCE)
          THEN \* look_up_operations raises before _infer_type is assigned
               /\ raised' = "ConfigurationError"
               /\ stage' = "failed_setup"
               /\ UNCHANGED << infer_type, reader, events >>
          ELSE LET it == SetupInferType(is_training, task_param)
                   r0 == SelectReader(is_training, it, reader)
               IN  /\ infer_type' = it
                   /\ IF Truthy(r0)
                      THEN /\ reader' =
                                [r0 EXCEPT
                                   !.initialised = TRUE,
                                   !.layers_bound = TRUE,
                                   !.layers = AugmentationLayers(
                                                is_training, action_param)]
                           /\ events' = events \o
                                <<"reader.initialise_reader",
                                  "reader.add_preprocessing_layers">>
                      ELSE /\ reader' = r0
                           /\ UNCHANGED events
                   /\ raised' = "none"
                   /\ stage' = "loaded"
  /\ UNCHANGED << is_training, net_param, action_param, sampler, net,
                  output_decoder, outputs_collector, gradients_collector,
                  run, decode_calls, last_result, sampler_calls >>

(* --------------------------- initialise_sampler ------------------------ *)
\* ResizeSampler(reader, data_param, batch_size, windows_per_image,
\*               shuffle_buffer)
ResizeSampler(rd, dp, bs, wpi, shuffle) ==
  [kind |-> "ResizeSampler", reader |-> rd, data_param |-> dp,
   batch_size |-> bs, windows_per_image |-> wpi, shuffle_buffer |-> shuffle,
   n_interpolations |-> 0]
\* LinearInterpolateSampler(reader, data_param, batch_size, n_interpolations)
LinearInterpolateSampler(rd, dp, bs, n) ==
  [kind |-> "LinearInterpolateSampler", reader |-> rd, data_param |-> dp,
   batch_size |-> bs, windows_per_image |-> 0, shuffle_buffer |-> FALSE,
   n_interpolations |-> n]

\* SelectSampler with the shuffle buffer left on for encode / encode-decode
SelectSampler_ShuffleInference(training, it, rd, dp, np, tp) ==
  IF training
  THEN << ResizeSampler(rd, dp, np.batch_size, 1, TRUE) >>
  ELSE IF it \in {"encode", "encode-decode"}
  THEN << ResizeSampler(rd, dp, np.batch_size, 1, TRUE) >>
  ELSE IF it = "linear_interpolation"
  THEN << LinearInterpolateSampler(rd, dp, np.batch_size,
                                   tp.n_interpolations) >>
  ELSE << >>
\* SelectSampler handing each sampler a freshly constructed reader
SelectSampler_FreshReader(training, it, rd, dp, np, tp) ==
  IF training
  THEN << ResizeSampler(ImageReader({"image"}), dp, np.batch_size, 1, TRUE) >>
  ELSE IF it \in {"encode", "encode-decode"}
  THEN << ResizeSampler(ImageReader({"image"}), dp, np.batch_size, 1,
                        FALSE) >>
  ELSE IF it = "linear_interpolation"
  THEN << LinearInterpolateSampler(ImageReader({"feature"}), dp,
                                   np.batch_size, tp.n_interpolations) >>
  ELSE << >>
\* lines 76-99: the sampler list built from the training flag and _infer_type
SelectSampler(training, it, rd, dp, np, tp) ==
  IF training
  THEN << ResizeSampler(rd, dp, np.batch_size, 1, TRUE) >>
  ELSE IF it \in {"encode", "encode-decode"}
  THEN << ResizeSampler(rd, dp, np.batch_size, 1, FALSE) >>
  ELSE IF it = "linear_interpolation"
  THEN << LinearInterpolateSampler(rd, dp, np.batch_size,
                                   tp.n_interpolations) >>
  ELSE << >>

SamplerEvents(s) ==
  IF Len(s) = 0 THEN << >> ELSE << s[1].kind >>
\* lines 75-99 on the twin
TwinSampler(tw) ==
  [tw EXCEPT !.sampler = SelectSampler(is_training, tw.infer_type, tw.reader,
                                       data_param, net_param,
                                       tw.autoencoder_param),
             !.raised = "none"]

\* initialise_sampler without the reset of line 76
initialise_sampler_NoReset ==
  /\ stage \in {"loaded", "sampled"}
  /\ sampler_calls < MaxSamplerCalls
  /\ sampler' = sampler \o SelectSampler(is_training, infer_type, reader,
                                         data_param, net_param,
                                         autoencoder_param)
  /\ events' = events \o SamplerEvents(sampler')
  /\ sampler_calls' = sampler_calls + 1
  /\ raised' = "none"
  /\ stage' = "sampled"
  /\ twin' = IF is_training THEN TwinSampler(twin) ELSE twin
  /\ UNCHANGED << is_training, net_param, action_param, data_param,
                  autoencoder_param, infer_type, reader, net,
                  output_decoder, outputs_collector, gradients_collector,
                  run, decode_calls, last_result >>
\* lines 75-99
initialise_sampler ==
  /\ stage \in {"loaded", "sampled"}
  /\ sampler_calls < MaxSamplerCalls
  /\ sampler' = SelectSampler(is_training, infer_type, reader, data_param,
                              net_param, autoencoder_param)
  /\ events' = events \o SamplerEvents(sampler')
  /\ sampler_calls' = sampler_calls + 1
  /\ raised' = "none"
  /\ stage' = "sampled"
  /\ twin' = IF is_training THEN TwinSampler(twin) ELSE twin
  /\ UNCHANGED << is_training, net_param, action_param, data_param,
                  autoencoder_param, infer_type, reader, net,
                  output_decoder, outputs_collector, gradients_collector,
                  run, decode_calls, last_result >>

(* --------------------------- initialise_network ------------------------ *)
\* lines 102-113: the regulariser attached to weights and biases
SelectRegularizer(np) ==
  LET reg_type == Lower(np.reg_type)
      decay == np.decay
  IN  IF reg_type = "l2" /\ decay > 0 THEN "l2_regularizer"
      ELSE IF reg_type = "l1" /\ decay > 0 THEN "l1_regularizer"
      ELSE None

\* what the network's layers put into the graph's REGULARIZATION_LOSSES
\* collection: nothing, or one loss for the weights and a different one for
\* the biases
RegLossLists == { << >> } \cup { <<a, a + 1>> : a \in 1..MaxRegLoss }

initialise_network ==
  /\ stage = "sampled"
  /\ \E reg_losses \in RegLossLists :
       /\ Len(reg_losses) > 0 => SelectRegularizer(net_param) # None
       /\ net' = [kind |-> net_param.name,
                  w_regularizer |-> SelectRegularizer(net_param),
                  b_regularizer |-> SelectRegularizer(net_param),
                  reg_losses |-> reg_losses]
  /\ raised' = "none"
  /\ stage' = "networked"
  /\ twin' = IF is_training THEN [twin EXCEPT !.raised = "none"] ELSE twin
  /\ UNCHANGED << is_training, net_param, action_param, data_param,
                  autoencoder_param, infer_type, reader, sampler,
                  output_decoder, outputs_collector, gradients_collector,
                  run, decode_calls, last_result, events, sampler_calls >>

(* ------------------------ collaborator interfaces ---------------------- *)
\* name of the location entry a sampler yields next to a channel
LocationKey(c) == IF c = "image" THEN "image_location"
                  ELSE IF c = "feature" THEN "feature_location"
                  ELSE "location"
\* keys of the dictionary a sampler's pop_batch_op returns
DataDictKeys(rd) == rd.channels \cup { LocationKey(c) : c \in rd.channels }
\* self.get_sampler()[0].pop_batch_op(): slot 0 of the sampler list
PopBatch(s) == IF Len(s) = 0 THEN [ok |-> FALSE, keys |-> {}]
               ELSE [ok |-> TRUE, keys |-> DataDictKeys(s[1].reader)]

\* a tensor handle: where it came from and, for tuple elements, its position
Tensor(src, idx) == [src |-> src, idx |-> idx]
\* Python indexing t[i] of a tuple of length n (negative i counts from the end)
PyIndex(n, i) == IF i < 0 THEN n + i ELSE i
\* shape of element i of the tuple self.net(images) returns; the last
\* element is the latent sample, the others are image shaped
NetOutputShape(image_shape, i) ==
  IF i = NetOutLen - 1 THEN << image_shape[1], LatentDim >> ELSE image_shape
\* number of elements of a tensor of the given shape
RECURSIVE NumElements(_)
NumElements(shape) ==
  IF Len(shape) = 0 THEN 1 ELSE Head(shape) * NumElements(Tail(shape))

\* outputs_collector.add_to_collection(var, name, average_over_devices,
\*                                     summary_type, collection)
Output(var, name, avg, stype, coll) ==
  [var |-> var, name |-> name, average_over_devices |-> avg,
   summary_type |-> stype, collection |-> coll]
\* WindowAsImageAggregator(image_reader, output_path)
WindowAsImageAggregator(id, has_reader, rd) ==
  [kind |-> "WindowAsImageAggregator", id |-> id, has_reader |-> has_reader,
   reader_channels |-> IF has_reader THEN rd.channels ELSE {}]

(* ----------------------- connect_data_and_network ---------------------- *)
\* what one run leaves behind: the exception (or "none"), the run record,
\* the outputs and gradients it declared, the aggregator and the calls made
Outcome(exc, r, outs, grads, dec, evs) ==
  [raised |-> exc, run |-> r, outputs |-> outs, grads |-> grads,
   decoder |-> dec, events |-> evs]

\* lines 176-177 and 200-201: (batch_size,) + spatial_window_size + (1,)
ImageSize(np, ap) == <<np.batch_size>> \o ap.spatial_window_size \o <<1>>

\* TrainOutputs without the monitoring summary
TrainOutputs_ConsoleOnly ==
  << Output(Tensor("data_loss", -1), "variational_lower_bound",
            TRUE, None, CONSOLE) >>
\* lines 145-151: the outputs declared when training
TrainOutputs ==
  << Output(Tensor("data_loss", -1), "variational_lower_bound",
            TRUE, None, CONSOLE),
     Output(Tensor("data_loss", -1), "variational_lower_bound",
            TRUE, "scalar", TF_SUMMARIES) >>

\* sum of a list of scalar losses
RECURSIVE SumOf(_)
SumOf(xs) == IF Len(xs) = 0 THEN 0 ELSE Head(xs) + SumOf(Tail(xs))
\* tf.reduce_mean over a non-empty list of scalars, as the fraction num/den
ReduceMean(xs) == [num |-> SumOf(xs), den |-> Len(xs)]
\* a scalar plus a fraction
AddScalar(x, q) == [num |-> x * q.den + q.num, den |-> q.den]

\* TotalLoss that adds the sum of the regularisation losses, not their mean
TotalLoss_Sum(decay, data_loss, reg_losses) ==
  IF decay > 0 /\ Len(reg_losses) > 0
  THEN AddScalar(data_loss, [num |-> SumOf(reg_losses), den |-> 1])
  ELSE [num |-> data_loss, den |-> 1]
\* lines 133-140: the loss handed to compute_gradients, as a fraction
TotalLoss(decay, data_loss, reg_losses) ==
  IF decay > 0
  THEN IF Len(reg_losses) > 0
       THEN AddScalar(data_loss, ReduceMean(reg_losses))
       ELSE [num |-> data_loss, den |-> 1]
  ELSE [num |-> data_loss, den |-> 1]

\* lines 122-151
TrainBranch(s, np, ap, r0, dec, device_id, data_loss, reg_losses) ==
  LET pb == PopBatch(s)
      r1 == [r0 EXCEPT !.mode = "train", !.popped = TRUE, !.pop_slot = 0]
      r2 == [r1 EXCEPT !.channel_read = "image"]
  IN  IF ~pb.ok THEN Outcome("IndexError", r1, << >>, << >>, dec, << >>)
      ELSE IF "image" \notin pb.keys
      THEN Outcome("KeyError", r2, << >>, << >>, dec, <<"pop_batch_op">>)
      ELSE Outcome("none", r2, TrainOutputs,
             << [loss |-> TotalLoss(np.decay, data_loss, reg_losses),
                 data_loss |-> data_loss, reg_losses |-> reg_losses,
                 device_id |-> device_id] >>,
             dec,
             <<"pop_batch_op", "net(image)", "compute_gradients">>)

\* EncodeOutputs with the two tuple positions exchanged
EncodeOutputs_Swapped(it) ==
  << Output(Tensor("data_dict.image_location", -1), "location",
            TRUE, None, CONSOLE) >>
  \o (IF it = "encode-decode"
      THEN << Output(Tensor("net_output", PyIndex(NetOutLen, 7)),
                     "generated_image", TRUE, None, CONSOLE) >>
      ELSE << >>)
  \o (IF it = "encode"
      THEN << Output(Tensor("net_output", PyIndex(NetOutLen, 2)),
                     "embedded", TRUE, None, CONSOLE) >>
      ELSE << >>)
\* EncodeOutputs declaring both network outputs whatever the inference type
EncodeOutputs_Both(it) ==
  << Output(Tensor("data_dict.image_location", -1), "location",
            TRUE, None, CONSOLE),
     Output(Tensor("net_output", PyIndex(NetOutLen, 2)),
            "generated_image", TRUE, None, CONSOLE),
     Output(Tensor("net_output", PyIndex(NetOutLen, 7)),
            "embedded", TRUE, None, CONSOLE) >>
\* lines 158-169: the outputs declared for 'encode' and 'encode-decode'
EncodeOutputs(it) ==
  << Output(Tensor("data_dict.image_location", -1), "location",
            TRUE, None, CONSOLE) >>
  \o (IF it = "encode-decode"
      THEN << Output(Tensor("net_output", PyIndex(NetOutLen, 2)),
                     "generated_image", TRUE, None, CONSOLE) >>
      ELSE << >>)
  \o (IF it = "encode"
      THEN << Output(Tensor("net_output", PyIndex(NetOutLen, 7)),
                     "embedded", TRUE, None, CONSOLE) >>
      ELSE << >>)

\* lines 153-174
EncodeBranch(it, s, rd, r0, dec, id) ==
  LET pb == PopBatch(s)
      r1 == [r0 EXCEPT !.mode = it, !.popped = TRUE, !.pop_slot = 0]
      r2 == [r1 EXCEPT !.channel_read = "image"]
      r3 == [r2 EXCEPT !.location_read = "image_location"]
  IN  IF ~pb.ok THEN Outcome("IndexError", r1, << >>, << >>, dec, << >>)
      ELSE IF "image" \notin pb.keys
      THEN Outcome("KeyError", r2, << >>, << >>, dec, <<"pop_batch_op">>)
      ELSE IF "image_location" \notin pb.keys
      THEN Outcome("KeyError", r3, << >>, << >>, dec,
                   <<"pop_batch_op", "net(image)">>)
      ELSE Outcome("none", r3, EncodeOutputs(it), << >>,
                   WindowAsImageAggregator(id, TRUE, rd),
                   <<"pop_batch_op", "net(image)",
                     "WindowAsImageAggregator">>)

\* NoiseShape taken from the reconstruction at position 2
NoiseShape_Reconstruction(image_size) ==
  NetOutputShape(image_size, PyIndex(NetOutLen, 2))
\* line 180: noise_shape = net_output[-1].get_shape().as_list()
NoiseShape(image_size) ==
  NetOutputShape(image_size, PyIndex(NetOutLen, -1))

\* SampleBranch that declares its output but creates no aggregator
SampleBranch_NoAggregator(np, ap, r0, id) ==
  LET image_size == ImageSize(np, ap)
      r1 == [r0 EXCEPT !.mode = "sample", !.dummy_passes = 1,
                       !.latent_shape =
                          NetOutputShape(image_size, NetOutLen - 1),
                       !.decoder_input = "noise",
                       !.decoder_input_shape = NoiseShape(image_size),
                       !.decoder_only = 1]
  IN  Outcome("none", r1,
        << Output(Tensor("decoder_output", -1), "generated_image",
                  TRUE, None, CONSOLE) >>,
        << >>, NoDecoder,
        <<"net(dummy)", "random_normal", "shared_decoder",
          "decoder_means">>)
\* SampleBranch that shapes the noise from the configuration, without the
\* dummy forward pass
SampleBranch_NoDummyPass(np, ap, r0, id) ==
  LET r1 == [r0 EXCEPT !.mode = "sample",
                       !.decoder_input = "noise",
                       !.decoder_input_shape = << np.batch_size, LatentDim >>,
                       !.decoder_only = 1]
  IN  Outcome("none", r1,
        << Output(Tensor("decoder_output", -1), "generated_image",
                  TRUE, None, CONSOLE) >>,
        << >>,
        WindowAsImageAggregator(id, FALSE, EmptyTuple),
        <<"random_normal", "shared_decoder", "decoder_means",
          "WindowAsImageAggregator">>)
\* lines 175-197
SampleBranch(np, ap, r0, id) ==
  LET image_size == ImageSize(np, ap)
      noise_shape == NoiseShape(image_size)
      r1 == [r0 EXCEPT !.mode = "sample", !.dummy_passes = 1,
                       !.latent_shape =
                          NetOutputShape(image_size, NetOutLen - 1),
                       !.decoder_input = "noise",
                       !.decoder_input_shape = noise_shape,
                       !.decoder_only = 1]
  IN  Outcome("none", r1,
        << Output(Tensor("decoder_output", -1), "generated_image",
                  TRUE, None, CONSOLE) >>,
        << >>,
        WindowAsImageAggregator(id, FALSE, EmptyTuple),
        <<"net(dummy)", "random_normal", "shared_decoder", "decoder_means",
          "WindowAsImageAggregator">>)

\* tf.reshape(real_code, shape) needs equal element counts; it fails where
\* it is called, while the batch is being constructed
Reshapable(elements, shape) == elements = NumElements(shape)

\* InterpolateBranch with the reshape moved behind the declarations and the
\* aggregator
InterpolateBranch_ReshapeLast(s, rd, np, ap, r0, dec, id, feature_dim) ==
  LET image_size == ImageSize(np, ap)
      latent == NetOutputShape(image_size, PyIndex(NetOutLen, -1))
      pb == PopBatch(s)
      r1 == [r0 EXCEPT !.mode = "linear_interpolation",
                       !.dummy_passes = 1,
                       !.latent_shape =
                          NetOutputShape(image_size, NetOutLen - 1),
                       !.popped = TRUE, !.pop_slot = 0]
      r2 == [r1 EXCEPT !.channel_read = "feature",
                       !.feature_elements = np.batch_size * feature_dim]
      r4 == [r2 EXCEPT !.location_read = "feature_location"]
      r5 == [r4 EXCEPT !.decoder_input = "real_code",
                       !.decoder_input_shape = latent,
                       !.decoder_only = 1]
      outs == << Output(Tensor("decoder_output", -1), "generated_image",
                        TRUE, None, CONSOLE),
                 Output(Tensor("data_dict.feature_location", -1),
                        "location", TRUE, None, CONSOLE) >>
  IN  IF ~pb.ok
      THEN Outcome("IndexError", r1, << >>, << >>, dec, <<"net(dummy)">>)
      ELSE IF "feature" \notin pb.keys \/ "feature_location" \notin pb.keys
      THEN Outcome("KeyError", r2, << >>, << >>, dec,
                   <<"net(dummy)", "pop_batch_op">>)
      ELSE IF ~Reshapable(np.batch_size * feature_dim, latent)
      THEN Outcome("ShapeMismatchError", r4, outs, << >>,
                   WindowAsImageAggregator(id, TRUE, rd),
                   <<"net(dummy)", "pop_batch_op",
                     "WindowAsImageAggregator">>)
      ELSE Outcome("none", r5, outs, << >>,
                   WindowAsImageAggregator(id, TRUE, rd),
                   <<"net(dummy)", "pop_batch_op", "shared_decoder",
                     "decoder_means", "WindowAsImageAggregator">>)

\* lines 198-220
InterpolateBranch(s, rd, np, ap, r0, dec, id, feature_dim) ==
  LET image_size == ImageSize(np, ap)
      latent == NetOutputShape(image_size, PyIndex(NetOutLen, -1))
      pb == PopBatch(s)
      r1 == [r0 EXCEPT !.mode = "linear_interpolation",
                       !.dummy_passes = 1,
                       !.latent_shape =
                          NetOutputShape(image_size, NetOutLen - 1),
                       !.popped = TRUE, !.pop_slot = 0]
      r2 == [r1 EXCEPT !.channel_read = "feature",
                       !.feature_elements = np.batch_size * feature_dim]
      r3 == [r2 EXCEPT !.decoder_input = "real_code",
                       !.decoder_input_shape = latent,
                       !.decoder_only = 1]
      r4 == [r3 EXCEPT !.location_read = "feature_location"]
  IN  IF ~pb.ok
      THEN Outcome("IndexError", r1, << >>, << >>, dec, <<"net(dummy)">>)
      ELSE IF "feature" \notin pb.keys
      THEN Outcome("KeyError", r2, << >>, << >>, dec,
                   <<"net(dummy)", "pop_batch_op">>)
      ELSE IF ~Reshapable(np.batch_size * feature_dim, latent)
      THEN Outcome("ShapeMismatchError", r2, << >>, << >>, dec,
                   <<"net(dummy)", "pop_batch_op">>)
      ELSE IF "feature_location" \notin pb.keys
      THEN Outcome("KeyError", r4,
                   << Output(Tensor("decoder_output", -1),
                             "generated_image", TRUE, None, CONSOLE) >>,
                   << >>, dec,
                   <<"net(dummy)", "pop_batch_op", "shared_decoder",
                     "decoder_means">>)
      ELSE Outcome("none", r4,
             << Output(Tensor("decoder_output", -1), "generated_image",
                       TRUE, None, CONSOLE),
                Output(Tensor("data_dict.feature_location", -1), "location",
                       TRUE, None, CONSOLE) >>,
             << >>,
             WindowAsImageAggregator(id, TRUE, rd),
             <<"net(dummy)", "pop_batch_op", "shared_decoder",
               "decoder_means", "WindowAsImageAggregator">>)

\* lines 122-222: dispatch on is_training, then on _infer_type; the
\* attribute does not exist when the lookup of line 42 raised, and line 153
\* is the first to read it
Connect(training, it, s, rd, np, ap, r0, dec, id, loss, regs, feature_dim) ==
  IF training
  THEN TrainBranch(s, np, ap, r0, dec, id, loss, regs)
  ELSE IF it = Unset
  THEN Outcome("AttributeError", r0, << >>, << >>, dec, << >>)
  ELSE IF it \in {"encode", "encode-decode"}
  THEN EncodeBranch(it, s, rd, r0, dec, id)
  ELSE IF it = "sample"
  THEN SampleBranch(np, ap, r0, id)
  ELSE IF it = "linear_interpolation"
  THEN InterpolateBranch(s, rd, np, ap, r0, dec, id, feature_dim)
  ELSE Outcome("NotImplementedError", [r0 EXCEPT !.mode = "unreachable"],
               << >>, << >>, dec, << >>)

\* lines 119-222 on the twin
TwinConnect(tw, r0, data_loss, feature_dim) ==
  LET o == Connect(is_training, tw.infer_type, tw.sampler, tw.reader,
                   net_param, action_param, r0, tw.output_decoder, r0.n,
                   data_loss, net.reg_losses, feature_dim)
  IN  [tw EXCEPT !.outputs_collector = @ \o o.outputs,
                 !.gradients_collector = @ \o o.grads,
                 !.output_decoder = o.decoder,
                 !.raised = o.raised]

connect_data_and_network ==
  /\ stage \in {"networked", "connected", "failed_setup"}
  /\ run.n < MaxDevices
  /\ last_result.n = 0
  /\ \E data_loss \in 1..MaxDataLoss, feature_dim \in 1..MaxFeatureDim :
       /\ LET r0 == [NoRun EXCEPT !.n = run.n + 1,
                                  !.first_output = Len(outputs_collector),
                                  !.first_event = Len(events)]
              o == Connect(is_training, infer_type, sampler, reader,
                           net_param, action_param, r0, output_decoder,
                           run.n + 1, data_loss, net.reg_losses,
                           feature_dim)
          IN  /\ run' = o.run
              /\ outputs_collector' = outputs_collector \o o.outputs
              /\ gradients_collector' = gradients_collector \o o.grads
              /\ output_decoder' = o.decoder
              /\ events' = events \o o.events
              /\ raised' = o.raised
              /\ stage' = IF o.raised = "none" THEN "connected"
                          ELSE IF stage = "failed_setup" THEN stage
                          ELSE "failed_connect"
              /\ twin' = IF is_training
                         THEN TwinConnect(twin, r0, data_loss, feature_dim)
                         ELSE twin
  /\ UNCHANGED << is_training, net_param, action_param, data_param,
                  autoencoder_param, infer_type, reader, sampler, net,
                  decode_calls, last_result, sampler_calls >>

(* ----------------------------- interpret_output ------------------------ *)
\* one row of a location matrix: column 0 carries an index a, column 1 a
\* different index (a + MaxLoc + 1), every further column the poison marker
LocationRows ==
  { [j \in 1..NumLocCols |-> IF j = 1 THEN a
                              ELSE IF j = 2 THEN a + MaxLoc + 1
                              ELSE Poison] :
      a \in 0..MaxLoc }
Locations == { <<row>> : row \in LocationRows }

\* numpy slicing loc[:, lo:hi] (0 <= lo <= hi), applied row by row
RowSlice(row, lo, hi) ==
  LET h == IF hi > Len(row) THEN Len(row) ELSE hi
  IN  IF lo >= h THEN << >> ELSE SubSeq(row, lo + 1, h)
ColumnSlice(loc, lo, hi) == [i \in 1..Len(loc) |-> RowSlice(loc[i], lo, hi)]

\* names of the outputs the engine hands back: those declared to CONSOLE
ConsoleNames(collector) ==
  { collector[i].name : i \in { k \in 1..Len(collector) :
                                   collector[k].collection = CONSOLE } }
\* the tensor first declared under a name
DeclaredVar(collector, name) ==
  collector[CHOOSE i \in 1..Len(collector) :
              /\ collector[i].name = name
              /\ \A k \in 1..(i - 1) : collector[k].name # name].var
\* a batch output: each declared name with its tensor and its value
BatchOutput(collector, loc) ==
  [name \in ConsoleNames(collector) |->
     [var |-> DeclaredVar(collector, name),
      value |-> IF name = "location" THEN loc ELSE << >>]]

\* decode_batch(artifact, location) as the aggregator receives it
DecodeCall(dec, artifact, has_location, location) ==
  [decoder |-> dec.id, artifact |-> artifact,
   has_location |-> has_location, location |-> location]

Result(n, exc, returned, names, decoded, mode, calls) ==
  [raised |-> exc,
   result |-> [n |-> n, returned |-> returned, read_names |-> names,
               decoded |-> decoded, mode |-> mode,
               batch_location |-> << >>],
   calls |-> calls]

\* lines 231-246: the artifact each inference type decodes and the
\* location columns [lo, hi) it passes (none when use_location is false)
DecodeArgs(it) ==
  IF it = "encode"
  THEN [artifact |-> "embedded", use_location |-> TRUE, lo |-> 0, hi |-> 1]
  ELSE IF it = "encode-decode"
  THEN [artifact |-> "generated_image", use_location |-> TRUE,
        lo |-> 0, hi |-> 1]
  ELSE IF it = "sample"
  THEN [artifact |-> "generated_image", use_location |-> FALSE,
        lo |-> 0, hi |-> 0]
  ELSE [artifact |-> "generated_image", use_location |-> TRUE,
        lo |-> 0, hi |-> 2]

\* self.output_decoder.decode_batch(batch_output[artifact], location)
DecodeWith(n, dec, batch_output, mode, a) ==
  IF dec.kind = Unset
  THEN Result(n, "AttributeError", None, {}, FALSE, mode, << >>)
  ELSE IF a.artifact \notin DOMAIN batch_output
  THEN Result(n, "KeyError", None, {a.artifact}, FALSE, mode, << >>)
  ELSE IF ~a.use_location
  THEN Result(n, "none", "decode_batch", {a.artifact}, TRUE, mode,
              << DecodeCall(dec, batch_output[a.artifact].var, FALSE,
                            << >>) >>)
  ELSE IF "location" \notin DOMAIN batch_output
  THEN Result(n, "KeyError", None, {a.artifact, "location"}, FALSE, mode,
              << >>)
  ELSE Result(n, "none", "decode_batch", {a.artifact, "location"}, TRUE,
              mode,
              << DecodeCall(dec, batch_output[a.artifact].var, TRUE,
                            ColumnSlice(batch_output["location"].value,
                                        a.lo, a.hi)) >>)

\* Interpret that validates nothing: an unmatched type falls through
Interpret_NoValidation(n, training, tp, dec, batch_output) ==
  IF training
  THEN Result(n, "none", "True", {}, FALSE, "train", << >>)
  ELSE LET it == tp.inference_type
       IN  IF it \in {"encode", "encode-decode", "sample",
                      "linear_interpolation"}
           THEN DecodeWith(n, dec, batch_output, it, DecodeArgs(it))
           ELSE Result(n, "none", None, {}, FALSE, "unreachable", << >>)
\* Interpret that slices the first three location columns for interpolation
Interpret_ThreeColumns(n, training, tp, dec, batch_output) ==
  IF training
  THEN Result(n, "none", "True", {}, FALSE, "train", << >>)
  ELSE IF ~LookupOk(tp.inference_type, SUPPORTED_INFERENCE)
  THEN Result(n, "ConfigurationError", None, {}, FALSE, Unset, << >>)
  ELSE LET it == look_up_operations(tp.inference_type, SUPPORTED_INFERENCE)
       IN  IF it \in {"encode", "encode-decode", "sample"}
           THEN DecodeWith(n, dec, batch_output, it, DecodeArgs(it))
           ELSE IF it = "linear_interpolation"
           THEN DecodeWith(n, dec, batch_output, it,
                           [DecodeArgs(it) EXCEPT !.hi = 3])
           ELSE Result(n, "none", None, {}, FALSE, "unreachable", << >>)
\* Interpret that dispatches on the inference type when training as well
Interpret_NoTrainingCheck(n, training, tp, dec, batch_output) ==
  IF ~LookupOk(tp.inference_type, SUPPORTED_INFERENCE)
  THEN Result(n, "ConfigurationError", None, {}, FALSE, Unset, << >>)
  ELSE LET it == look_up_operations(tp.inference_type, SUPPORTED_INFERENCE)
       IN  IF it \in {"encode", "encode-decode", "sample",
                      "linear_interpolation"}
           THEN DecodeWith(n, dec, batch_output, it, DecodeArgs(it))
           ELSE Result(n, "none", None, {}, FALSE, "unreachable", << >>)
\* Interpret without the linear_interpolation branch of lines 242-245
Interpret_ThreeBranches(n, training, tp, dec, batch_output) ==
  IF training
  THEN Result(n, "none", "True", {}, FALSE, "train", << >>)
  ELSE IF ~LookupOk(tp.inference_type, SUPPORTED_INFERENCE)
  THEN Result(n, "ConfigurationError", None, {}, FALSE, Unset, << >>)
  ELSE LET it == look_up_operations(tp.inference_type, SUPPORTED_INFERENCE)
       IN  IF it \in {"encode", "encode-decode", "sample"}
           THEN DecodeWith(n, dec, batch_output, it, DecodeArgs(it))
           ELSE Result(n, "none", None, {}, FALSE, "unreachable", << >>)
\* lines 224-246
Interpret(n, training, tp, dec, batch_output) ==
  IF training
  THEN Result(n, "none", "True", {}, FALSE, "train", << >>)
  ELSE IF ~LookupOk(tp.inference_type, SUPPORTED_INFERENCE)
  THEN Result(n, "ConfigurationError", None, {}, FALSE, Unset, << >>)
  ELSE LET it == look_up_operations(tp.inference_type, SUPPORTED_INFERENCE)
       IN  IF it \in {"encode", "encode-decode", "sample",
                      "linear_interpolation"}
           THEN DecodeWith(n, dec, batch_output, it, DecodeArgs(it))
           ELSE Result(n, "none", None, {}, FALSE, "unreachable", << >>)

\* lines 224-246 on the twin
TwinInterpret(tw, loc) ==
  LET bo == BatchOutput(tw.outputs_collector, loc)
      o == Interpret(last_result.n + 1, is_training, tw.autoencoder_param,
                     tw.output_decoder, bo)
  IN  [tw EXCEPT !.last_result =
                    [o.result EXCEPT !.batch_location =
                       IF "location" \in DOMAIN bo THEN bo["location"].value
                       ELSE << >>],
                 !.raised = o.raised]

interpret_output ==
  /\ stage \in {"connected", "failed_setup"}
  /\ last_result.n < MaxBatches
  /\ \E loc \in Locations :
       LET bo == BatchOutput(outputs_collector, loc)
           o == Interpret(last_result.n + 1, is_training, autoencoder_param,
                          output_decoder, bo)
       IN  /\ last_result' =
                [o.result EXCEPT !.batch_location =
                   IF "location" \in DOMAIN bo THEN bo["location"].value
                   ELSE << >>]
           /\ decode_calls' = decode_calls \o o.calls
           /\ raised' = o.raised
           /\ twin' = IF is_training THEN TwinInterpret(twin, loc) ELSE twin
           /\ stage' = IF o.raised = "none" \/ stage = "failed_setup"
                       THEN stage ELSE "failed_decode"
  /\ UNCHANGED << is_training, net_param, action_param, data_param,
                  autoencoder_param, infer_type, reader, sampler, net,
                  output_decoder, outputs_collector, gradients_collector,
                  run, events, sampler_calls >>

(* ------------------------------ specification -------------------------- *)
Next ==
  \/ initialise_dataset_loader
  \/ initialise_sampler
  \/ initialise_network
  \/ connect_data_and_network
  \/ interpret_output

Spec == Init /\ [][Next]_vars

(* ------------------------------- the modes ----------------------------- *)
\* the operating mode a configuration selects: the training flag, then the
\* configured inference type
ModeOf(training, type_str) ==
  IF training THEN "TRAIN"
  ELSE IF type_str = "encode" THEN "ENCODE"
  ELSE IF type_str = "encode-decode" THEN "ENCODE_DECODE"
  ELSE IF type_str = "sample" THEN "SAMPLE"
  ELSE IF type_str = "linear_interpolation" THEN "INTERPOLATE"
  ELSE "UNSUPPORTED"
Mode == ModeOf(is_training, autoencoder_param.inference_type)
\* setup has run and did not fail
SetUp == stage \notin {"constructed", "failed_setup"}
\* the collaborator calls made by the latest connect_data_and_network run
RunEvents == SubSeq(events, run.first_event + 1, Len(events))
\* the outputs declared by the latest connect_data_and_network run
DeclaredByRun ==
  SubSeq(outputs_collector, run.first_output + 1, Len(outputs_collector))
Range(f) == { f[i] : i \in DOMAIN f }

(* ------------------------------- claims -------------------------------- *)

\* C1: in each of the five modes, once connect_data_and_network has run, the
\* channel it read from the popped batch (image, feature or none) is exactly
\* the channel the reader was scoped to by initialise_dataset_loader, and a
\* batch was popped (from slot 0) only if initialise_sampler created a
\* sampler; no run ends in a missing-key or missing-sampler error.
C1_SelectionsConsistent ==
  (SetUp /\ run.n > 0) =>
    /\ Mode \in {"TRAIN", "ENCODE", "ENCODE_DECODE", "SAMPLE", "INTERPOLATE"}
    /\ reader.channels =
         (IF run.channel_read = None THEN {} ELSE {run.channel_read})
    /\ run.popped => (run.pop_slot = 0 /\ Len(sampler) = 1)
    /\ (Len(sampler) = 1 /\ stage = "connected") => run.popped
    /\ stage = "failed_connect" => raised = "ShapeMismatchError"
C1_Witness ==
  /\ stage = "connected"
  /\ Mode = "INTERPOLATE"
  /\ run.popped
  /\ run.channel_read = "feature"

\* C2: after initialise_dataset_loader succeeds the reader's channel set is
\* a function of the mode: {image} for TRAIN, ENCODE and ENCODE_DECODE,
\* {feature} for INTERPOLATE, and the empty sentinel (no reader) for SAMPLE.
C2_ReaderChannelsByMode ==
  SetUp =>
    /\ Mode \in {"TRAIN", "ENCODE", "ENCODE_DECODE"} =>
         (reader.kind = "ImageReader" /\ reader.channels = {"image"})
    /\ Mode = "INTERPOLATE" =>
         (reader.kind = "ImageReader" /\ reader.channels = {"feature"})
    /\ Mode = "SAMPLE" => reader = EmptyTuple
    /\ Mode # "UNSUPPORTED"
C2_Witness ==
  /\ stage = "loaded"
  /\ Mode = "SAMPLE"
  /\ reader = EmptyTuple

DispatchName(training, type_str) == IF training THEN "train" ELSE type_str
\* C3: the mode is fixed once set up: the mode initialise_sampler,
\* connect_data_and_network and interpret_output dispatched on is the mode
\* established by initialise_dataset_loader, so interpret_output never
\* decodes under a mode other than the one outputs were bound for.
C3_ModeFixed ==
  LET m == DispatchName(is_training, autoencoder_param.inference_type)
  IN  SetUp =>
        /\ DispatchName(is_training, infer_type) = m
        /\ sampler_calls > 0 =>
             /\ (Len(sampler) = 0) <=> (m = "sample")
             /\ Len(sampler) = 1 =>
                  /\ (sampler[1].kind = "LinearInterpolateSampler")
                       <=> (m = "linear_interpolation")
                  /\ sampler[1].shuffle_buffer <=> (m = "train")
        /\ run.n > 0 => run.mode = m
        /\ last_result.n > 0 => last_result.mode = m
        /\ (run.n > 0 /\ last_result.n > 0) => last_result.mode = run.mode
C3_Witness ==
  /\ stage = "connected"
  /\ sampler_calls = MaxSamplerCalls
  /\ run.mode = "encode-decode"
  /\ last_result.decoded
  /\ last_result.mode = "encode-decode"

\* C4: a non-training instance with an unsupported inference-type string
\* fails initialise_dataset_loader with a configuration error before any
\* reader exists, and interpret_output fails with a configuration error too,
\* before reading any artifact or calling decode_batch.
C4_UnsupportedFailsAtBothStages ==
  (/\ stage # "constructed"
   /\ ~is_training
   /\ autoencoder_param.inference_type \notin SUPPORTED_INFERENCE) =>
    /\ stage = "failed_setup"
    /\ raised = IF last_result.n = 0 /\ run.n > 0 THEN "AttributeError"
                ELSE "ConfigurationError"
    /\ reader = NoReader
    /\ infer_type = Unset
    /\ events = << >>
    /\ decode_calls = << >>
    /\ ~last_result.decoded
    /\ last_result.read_names = {}
C4_Witness ==
  /\ stage = "failed_setup"
  /\ autoencoder_param.inference_type = "reconstruct"
  /\ last_result.n = MaxBatches
  /\ raised = "ConfigurationError"

ReaderOrSamplerEvents ==
  {"reader.initialise_reader", "reader.add_preprocessing_layers",
   "ResizeSampler", "LinearInterpolateSampler", "pop_batch_op"}
\* C5: in SAMPLE mode no reader is ever initialised, given a preprocessing
\* chain or handed to a sampler or aggregator, no sampler is created, no
\* batch is popped, and the noise fed to the decoder has exactly the shape
\* of the last element of the dummy forward pass's output tuple.
C5_SampleTouchesNoReader ==
  (SetUp /\ Mode = "SAMPLE") =>
    /\ reader = EmptyTuple
    /\ Range(events) \cap ReaderOrSamplerEvents = {}
    /\ sampler = << >>
    /\ ~output_decoder.has_reader
    /\ ~run.popped
    /\ run.n > 0 =>
         /\ run.dummy_passes = 1
         /\ run.decoder_input = "noise"
         /\ run.decoder_input_shape = run.latent_shape
         /\ run.latent_shape = << net_param.batch_size, LatentDim >>
C5_Witness ==
  /\ Mode = "SAMPLE"
  /\ stage = "connected"
  /\ sampler_calls > 0
  /\ run.decoder_input = "noise"
  /\ last_result.decoded

\* C6: initialise_sampler selects the sampler from the mode alone: TRAIN a
\* resize sampler with shuffling and one window per image; ENCODE and
\* ENCODE_DECODE a resize sampler without shuffling and one window per
\* image; INTERPOLATE an interpolation sampler carrying the configured
\* number of interpolation steps; SAMPLE no sampler.
C6_SamplerByMode ==
  sampler_calls > 0 =>
    /\ Mode = "SAMPLE" => sampler = << >>
    /\ Mode # "SAMPLE" => Len(sampler) = 1
    /\ Mode = "TRAIN" =>
         /\ sampler[1].kind = "ResizeSampler"
         /\ sampler[1].shuffle_buffer
         /\ sampler[1].windows_per_image = 1
    /\ Mode \in {"ENCODE", "ENCODE_DECODE"} =>
         /\ sampler[1].kind = "ResizeSampler"
         /\ ~sampler[1].shuffle_buffer
         /\ sampler[1].windows_per_image = 1
    /\ Mode = "INTERPOLATE" =>
         /\ sampler[1].kind = "LinearInterpolateSampler"
         /\ sampler[1].n_interpolations = autoencoder_param.n_interpolations
C6_Witness ==
  /\ sampler_calls = 1
  /\ Mode = "INTERPOLATE"
  /\ Len(sampler) = 1
  /\ sampler[1].n_interpolations = MaxInterpolations

Binding(o) == << o.name, o.collection, o.summary_type,
                 o.average_over_devices >>
Bindings(outs) == [i \in 1..Len(outs) |-> Binding(outs[i])]
\* C7: a completed connect_data_and_network run declares exactly the
\* artifacts of its mode's row of the output binding table, in the row's
\* order and nothing else: TRAIN the reconstruction loss to the console
\* (averaged over devices) and to monitoring as a scalar; ENCODE location and
\* embedding to console; ENCODE_DECODE location and reconstructed image to
\* console; SAMPLE reconstructed image to console; INTERPOLATE reconstructed
\* image and location to console.
C7_DeclaresExactlyTheRow ==
  stage = "connected" =>
    /\ Mode = "TRAIN" =>
         /\ Bindings(DeclaredByRun) =
              << <<"variational_lower_bound", CONSOLE, None, TRUE>>,
                 <<"variational_lower_bound", TF_SUMMARIES, "scalar",
                   TRUE>> >>
         /\ \A i \in 1..Len(DeclaredByRun) :
              DeclaredByRun[i].var.src = "data_loss"
    /\ Mode = "ENCODE" =>
         Bindings(DeclaredByRun) =
           << <<"location", CONSOLE, None, TRUE>>,
              <<"embedded", CONSOLE, None, TRUE>> >>
    /\ Mode = "ENCODE_DECODE" =>
         Bindings(DeclaredByRun) =
           << <<"location", CONSOLE, None, TRUE>>,
              <<"generated_image", CONSOLE, None, TRUE>> >>
    /\ Mode = "SAMPLE" =>
         Bindings(DeclaredByRun) =
           << <<"generated_image", CONSOLE, None, TRUE>> >>
    /\ Mode = "INTERPOLATE" =>
         Bindings(DeclaredByRun) =
           << <<"generated_image", CONSOLE, None, TRUE>>,
              <<"location", CONSOLE, None, TRUE>> >>
C7_Witness ==
  /\ stage = "connected"
  /\ Mode = "TRAIN"
  /\ run.n = 2
  /\ Len(outputs_collector) = 4
  /\ Len(DeclaredByRun) = 2

NetOutputsBound(outs, name) ==
  { outs[i].var.idx : i \in { k \in 1..Len(outs) :
                                 /\ outs[k].name = name
                                 /\ outs[k].var.src = "net_output" } }
AllNetOutputsBound(outs) ==
  { outs[i].var.idx : i \in { k \in 1..Len(outs) :
                                 outs[k].var.src = "net_output" } }
\* C8: from the same NetOutLen-element network output tuple, ENCODE binds
\* the element at index 7 as "embedded" and ENCODE_DECODE binds the element
\* at index 2 as "generated_image"; neither binds the other's element.
C8_PositionalOutputs ==
  stage = "connected" =>
    /\ Mode = "ENCODE" =>
         /\ NetOutputsBound(DeclaredByRun, "embedded") = {7}
         /\ AllNetOutputsBound(DeclaredByRun) = {7}
    /\ Mode = "ENCODE_DECODE" =>
         /\ NetOutputsBound(DeclaredByRun, "generated_image") = {2}
         /\ AllNetOutputsBound(DeclaredByRun) = {2}
C8_Witness ==
  /\ stage = "connected"
  /\ Mode = "ENCODE"
  /\ NetOutLen >= 8
  /\ NetOutputsBound(DeclaredByRun, "embedded") = {7}

Columns(loc, n) == [i \in 1..Len(loc) |-> [j \in 1..n |-> loc[i][j]]]
\* C9: interpret_output hands the aggregator only the prescribed part of the
\* location: column 0 for ENCODE and ENCODE_DECODE, columns 0 and 1 for
\* INTERPOLATE, no location for SAMPLE; the poison value of the further
\* columns never appears in a decode call's arguments.
C9_LocationColumns ==
  /\ \A k \in 1..Len(decode_calls) :
       LET c == decode_calls[k]
       IN  /\ \A i \in 1..Len(c.location) :
                 Poison \notin Range(c.location[i])
           /\ Mode \in {"ENCODE", "ENCODE_DECODE"} =>
                /\ c.has_location
                /\ \A i \in 1..Len(c.location) : Len(c.location[i]) = 1
           /\ Mode = "INTERPOLATE" =>
                /\ c.has_location
                /\ \A i \in 1..Len(c.location) : Len(c.location[i]) = 2
           /\ Mode = "SAMPLE" => (~c.has_location /\ c.location = << >>)
  /\ last_result.decoded =>
       LET c == decode_calls[Len(decode_calls)]
           loc == last_result.batch_location
       IN  /\ Mode \in {"ENCODE", "ENCODE_DECODE"} =>
                c.location = Columns(loc, 1)
           /\ Mode = "INTERPOLATE" => c.location = Columns(loc, 2)
C9_Witness ==
  /\ Mode = "INTERPOLATE"
  /\ last_result.decoded
  /\ Len(decode_calls) = MaxBatches
  /\ \A i \in 1..Len(last_result.batch_location) :
       /\ Len(last_result.batch_location[i]) >= 3
       /\ last_result.batch_location[i][3] = Poison
  /\ decode_calls[Len(decode_calls)].location =
       Columns(last_result.batch_location, 2)

AugmentationRank(layer) ==
  IF layer = "RandomFlipLayer" THEN 1
  ELSE IF layer = "RandomSpatialScalingLayer" THEN 2
  ELSE IF layer = "RandomRotationLayer" THEN 3
  ELSE 0
\* C10: the augmentation chain bound by initialise_dataset_loader is empty
\* when the training flag is false; when training it holds flip iff the
\* flip-axis spec is not -1, scaling iff the scaling range is non-empty and
\* rotation iff the rotation range is non-empty, each at most once and in
\* the relative order flip, scaling, rotation.
C10_AugmentationChain ==
  /\ ~reader.layers_bound => reader.layers = << >>
  /\ reader.layers_bound =>
       /\ ~is_training => reader.layers = << >>
       /\ is_training =>
            /\ ("RandomFlipLayer" \in Range(reader.layers))
                 <=> (action_param.random_flipping_axes # -1)
            /\ ("RandomSpatialScalingLayer" \in Range(reader.layers))
                 <=> (Len(action_param.scaling_percentage) > 0)
            /\ ("RandomRotationLayer" \in Range(reader.layers))
                 <=> (Len(action_param.rotation_angle) > 0)
            /\ \A i \in 1..Len(reader.layers) :
                 AugmentationRank(reader.layers[i]) > 0
            /\ \A i, j \in 1..Len(reader.layers) :
                 i < j => AugmentationRank(reader.layers[i])
                            < AugmentationRank(reader.layers[j])
C10_Witness ==
  /\ is_training
  /\ reader.layers_bound
  /\ reader.layers = <<"RandomFlipLayer", "RandomSpatialScalingLayer",
                       "RandomRotationLayer">>

\* C11: in TRAIN mode the loss handed to compute_gradients equals the data
\* loss when the decay coefficient is zero, and the data loss plus the mean
\* of the regularisation losses when decay > 0 and such losses exist; the
\* regulariser attached to the network is the L2 penalty for type 'l2' and
\* the L1 penalty for type 'l1' when decay > 0, and none otherwise.
C11_TotalLoss ==
  is_training =>
    /\ \A k \in 1..Len(gradients_collector) :
         LET g == gradients_collector[k]
             n == Len(g.reg_losses)
         IN  /\ g.loss.den > 0
             /\ net_param.decay = 0 =>
                  g.loss.num = g.data_loss * g.loss.den
             /\ (net_param.decay > 0 /\ n > 0) =>
                  g.loss.num * n =
                    (g.data_loss * n + SumOf(g.reg_losses)) * g.loss.den
             /\ (net_param.decay > 0 /\ n = 0) =>
                  g.loss.num = g.data_loss * g.loss.den
    /\ net.kind # Unset =>
         /\ net.b_regularizer = net.w_regularizer
         /\ (net_param.decay > 0 /\ net_param.reg_type \in {"l2", "L2"}) =>
              net.w_regularizer = "l2_regularizer"
         /\ (net_param.decay > 0 /\ net_param.reg_type \in {"l1", "L1"}) =>
              net.w_regularizer = "l1_regularizer"
         /\ net_param.decay <= 0 => net.w_regularizer = None
C11_Witness ==
  /\ is_training
  /\ stage = "connected"
  /\ net_param.decay > 0
  /\ net.w_regularizer = "l2_regularizer"
  /\ Len(gradients_collector) = MaxDevices
  /\ Len(gradients_collector[1].reg_losses) = 2
  /\ gradients_collector[1].loss.den = 2

\* number of occurrences of a call in the event log
RECURSIVE CountOf(_, _)
CountOf(evs, e) ==
  IF Len(evs) = 0 THEN 0
  ELSE (IF Head(evs) = e THEN 1 ELSE 0) + CountOf(Tail(evs), e)
\* connect_data_and_network runs that completed
CompletedRuns == IF stage = "failed_connect" THEN run.n - 1 ELSE run.n

\* C12: in every inference mode each completed network-connection step
\* creates the aggregator exactly once and nothing else creates one;
\* every interpret_output call of the run decodes through the aggregator
\* the instance holds, interpret_output leaves that aggregator in place, and
\* no decode happens while no aggregator exists.
C12_AggregatorReused ==
  (SetUp /\ ~is_training) =>
    /\ CountOf(events, "WindowAsImageAggregator") = CompletedRuns
    /\ (output_decoder.kind = Unset) <=> (CompletedRuns = 0)
    /\ output_decoder.kind # Unset =>
         /\ output_decoder.kind = "WindowAsImageAggregator"
         /\ output_decoder.id = CompletedRuns
    /\ \A k \in 1..Len(decode_calls) :
         /\ output_decoder.kind # Unset
         /\ decode_calls[k].decoder = output_decoder.id
    /\ Len(decode_calls) = last_result.n
    /\ last_result.n > 0 => last_result.decoded
C12_Witness ==
  /\ ~is_training
  /\ stage = "connected"
  /\ Len(decode_calls) = MaxBatches
  /\ Len(decode_calls) >= 2
  /\ \A k \in 1..Len(decode_calls) :
       decode_calls[k].decoder = output_decoder.id
  /\ output_decoder.kind = "WindowAsImageAggregator"

\* C13: in INTERPOLATE mode connect_data_and_network reshapes the feature
\* batch to the discovered latent shape when the element counts are equal
\* (batch_size x latent_dim) and fails with a shape-mismatch error when they
\* differ; the failed run has declared no output and created no aggregator.
C13_ReshapeOrFail ==
  (Mode = "INTERPOLATE" /\ run.n > 0) =>
    /\ stage \in {"failed_connect", "connected", "failed_decode"}
    /\ run.latent_shape = << net_param.batch_size, LatentDim >>
    /\ (stage = "failed_connect")
         <=> (run.feature_elements # net_param.batch_size * LatentDim)
    /\ stage # "failed_connect" =>
         /\ run.decoder_input = "real_code"
         /\ run.decoder_input_shape = run.latent_shape
         /\ NumElements(run.decoder_input_shape) = run.feature_elements
    /\ stage = "failed_connect" =>
         /\ raised = "ShapeMismatchError"
         /\ run.decoder_only = 0
         /\ DeclaredByRun = << >>
         /\ Len(outputs_collector) = 2 * (run.n - 1)
         /\ CountOf(events, "WindowAsImageAggregator") = run.n - 1
         /\ output_decoder.id # run.n
C13_Witness ==
  /\ Mode = "INTERPOLATE"
  /\ stage = "failed_connect"
  /\ raised = "ShapeMismatchError"
  /\ run.n = 1
  /\ run.feature_elements > net_param.batch_size * LatentDim
  /\ outputs_collector = << >>
  /\ output_decoder = NoDecoder

\* C14: in SAMPLE and INTERPOLATE mode every decoder-only invocation
\* (shared_decoder, then decoder_means) is preceded within the same
\* connect_data_and_network run by exactly one full forward pass on the
\* zero-filled dummy batch, and the decoder input has the latent shape that
\* pass discovered; TRAIN, ENCODE and ENCODE_DECODE make no decoder-only
\* invocation.
C14_DummyPassBeforeDecoder ==
  run.n > 0 =>
    LET evs == RunEvents
    IN  /\ \A i \in 1..Len(evs) :
             /\ evs[i] = "shared_decoder" =>
                  /\ CountOf(SubSeq(evs, 1, i - 1), "net(dummy)") = 1
                  /\ i < Len(evs)
                  /\ evs[i + 1] = "decoder_means"
             /\ evs[i] = "decoder_means" =>
                  (i > 1 /\ evs[i - 1] = "shared_decoder")
        /\ CountOf(evs, "shared_decoder") = run.decoder_only
        /\ run.decoder_only > 0 =>
             /\ Mode \in {"SAMPLE", "INTERPOLATE"}
             /\ run.dummy_passes = 1
             /\ run.decoder_input \in {"noise", "real_code"}
             /\ run.decoder_input_shape = run.latent_shape
        /\ (Mode \in {"SAMPLE", "INTERPOLATE"} /\ stage # "failed_connect")
             => run.decoder_only = 1
        /\ Mode \in {"TRAIN", "ENCODE", "ENCODE_DECODE"} =>
             /\ CountOf(events, "shared_decoder") = 0
             /\ CountOf(events, "decoder_means") = 0
             /\ run.decoder_only = 0
C14_Witness ==
  /\ Mode = "INTERPOLATE"
  /\ stage = "connected"
  /\ run.n = 2
  /\ run.decoder_only = 1
  /\ CountOf(events, "shared_decoder") = 2
  /\ CountOf(RunEvents, "net(dummy)") = 1

\* C15: in TRAIN mode connect_data_and_network never creates an aggregator,
\* and interpret_output returns True for every batch output without reading
\* an artifact from it and without calling decode_batch.
C15_TrainNeverDecodes ==
  is_training =>
    /\ output_decoder = NoDecoder
    /\ CountOf(events, "WindowAsImageAggregator") = 0
    /\ decode_calls = << >>
    /\ last_result.n > 0 =>
         /\ last_result.returned = "True"
         /\ last_result.read_names = {}
         /\ ~last_result.decoded
         /\ raised = "none"
         /\ stage = "connected"
C15_Witness ==
  /\ is_training
  /\ run.n = MaxDevices
  /\ last_result.n = MaxBatches
  /\ last_result.returned = "True"
  /\ Len(outputs_collector) > 0

\* C16: when not training, for every inference-type value,
\* connect_data_and_network either takes one of its four inference branches
\* (and declares outputs) or fails with an error, and interpret_output either
\* takes one of its four branches (and calls decode_batch) or fails with an
\* error; neither completes normally having done nothing.
C16_NoSilentFallThrough ==
  ~is_training =>
    /\ run.n > 0 =>
         /\ run.mode # "unreachable"
         /\ stage \in {"connected", "failed_decode"} =>
              /\ run.mode \in SUPPORTED_INFERENCE
              /\ Len(DeclaredByRun) > 0
         /\ stage = "failed_connect" => raised # "none"
         /\ (stage = "failed_setup" /\ last_result.n = 0) =>
              raised = "AttributeError"
    /\ last_result.n > 0 =>
         /\ last_result.mode # "unreachable"
         /\ \/ raised # "none" /\ ~last_result.decoded
            \/ /\ raised = "none"
               /\ last_result.mode \in SUPPORTED_INFERENCE
               /\ last_result.decoded
               /\ Len(decode_calls) = last_result.n
C16_Witness ==
  /\ ~is_training
  /\ autoencoder_param.inference_type \notin SUPPORTED_INFERENCE
  /\ run.n > 0
  /\ last_result.n > 0
  /\ raised = "ConfigurationError"
  /\ outputs_collector = << >>
  /\ decode_calls = << >>

\* the positions of a call in a log of calls
Positions(log, e) == { i \in DOMAIN log : log[i] = e }
SamplerPositions ==
  Positions(events, "ResizeSampler")
    \cup Positions(events, "LinearInterpolateSampler")
\* C17: in every mode that has a reader, the reader is initialised, then the
\* preprocessing chain is bound onto it, then it is handed to a sampler, then
\* the first batch is popped; no sampler is built on an uninitialised reader
\* and no batch is popped before the chain is bound.
C17_ReaderLifecycleOrder ==
  Truthy(reader) =>
    /\ Positions(events, "reader.initialise_reader") = {1}
    /\ Positions(events, "reader.add_preprocessing_layers") = {2}
    /\ reader.initialised /\ reader.layers_bound
    /\ \A i \in SamplerPositions : i > 2
    /\ \A p \in Positions(events, "pop_batch_op") :
         \E i \in SamplerPositions : 2 < i /\ i < p
    /\ Len(sampler) > 0 =>
         /\ sampler[1].reader = reader
         /\ SamplerPositions # {}
    /\ run.popped => Positions(events, "pop_batch_op") # {}
C17_Witness ==
  /\ Truthy(reader)
  /\ Mode = "ENCODE"
  /\ sampler_calls = MaxSamplerCalls
  /\ run.popped
  /\ run.n = MaxDevices
  /\ stage = "connected"

\* the sampler kind selected for a mode
StrategyOf(m) == IF m = "INTERPOLATE" THEN "LinearInterpolateSampler"
                 ELSE IF m = "SAMPLE" THEN None ELSE "ResizeSampler"
\* C18: after any number of initialise_sampler calls the sampler list holds
\* at most one sampler (exactly one in TRAIN, ENCODE, ENCODE_DECODE and
\* INTERPOLATE, none in SAMPLE), and every sampler ever created on the
\* instance has the strategy selected for its mode.
C18_AtMostOneSampler ==
  /\ Len(sampler) <= 1
  /\ sampler_calls = 0 => sampler = << >>
  /\ sampler_calls > 0 =>
       /\ Len(sampler) = (IF Mode = "SAMPLE" THEN 0 ELSE 1)
       /\ \A i \in DOMAIN sampler :
            /\ sampler[i].kind = StrategyOf(Mode)
            /\ sampler[i].kind = "ResizeSampler" =>
                 sampler[i].shuffle_buffer = is_training
       /\ SamplerPositions =
            (IF Mode = "SAMPLE" THEN {}
             ELSE Positions(events, StrategyOf(Mode)))
       /\ Cardinality(SamplerPositions) =
            (IF Mode = "SAMPLE" THEN 0 ELSE sampler_calls)
C18_Witness ==
  /\ sampler_calls = MaxSamplerCalls
  /\ Len(sampler) = 1
  /\ Mode = "INTERPOLATE"
  /\ stage = "connected"

\* the artifact names interpret_output is to read in an inference mode
NamesOfMode(m) ==
  IF m = "ENCODE" THEN {"embedded", "location"}
  ELSE IF m \in {"ENCODE_DECODE", "INTERPOLATE"}
  THEN {"generated_image", "location"}
  ELSE IF m = "SAMPLE" THEN {"generated_image"} ELSE {}
\* C19: in every inference mode the set of names interpret_output reads from
\* the batch output equals the set of names connect_data_and_network
\* declared for that mode: embedded and location in ENCODE, generated_image
\* and location in ENCODE_DECODE and INTERPOLATE, generated_image in SAMPLE.
C19_ReadsExactlyTheDeclared ==
  (SetUp /\ ~is_training) =>
    /\ (run.n > 0 /\ stage # "failed_connect") =>
         { DeclaredByRun[i].name : i \in DOMAIN DeclaredByRun }
           = NamesOfMode(Mode)
    /\ last_result.n > 0 =>
         /\ raised = "none"
         /\ last_result.read_names = NamesOfMode(Mode)
         /\ last_result.read_names = ConsoleNames(outputs_collector)
         /\ last_result.read_names =
              { outputs_collector[i].name : i \in DOMAIN outputs_collector }
C19_Witness ==
  /\ Mode = "ENCODE"
  /\ last_result.n > 0
  /\ last_result.read_names = {"embedded", "location"}
  /\ ConsoleNames(outputs_collector) = {"embedded", "location"}

\* C20: in TRAIN mode the configured inference type has no effect: an
\* instance and its twin, which differ only in inference type (an unsupported
\* string included) and receive the same calls and inputs, have the same
\* inference type attribute, reader, augmentation chain, sampler, declared
\* outputs, gradients, aggregator and interpret_output results, and neither
\* raises a configuration error.
C20_TrainIgnoresInferenceType ==
  is_training =>
    /\ raised # "ConfigurationError"
    /\ twin.raised # "ConfigurationError"
    /\ stage # "constructed" =>
         /\ twin.autoencoder_param.inference_type
              # autoencoder_param.inference_type
         /\ [twin.autoencoder_param EXCEPT
               !.inference_type = autoencoder_param.inference_type]
              = autoencoder_param
         /\ infer_type = None
    /\ twin.infer_type = infer_type
    /\ twin.reader = reader
    /\ twin.sampler = sampler
    /\ twin.output_decoder = output_decoder
    /\ twin.outputs_collector = outputs_collector
    /\ twin.gradients_collector = gradients_collector
    /\ twin.last_result = last_result
    /\ twin.raised = raised
C20_Witness ==
  /\ is_training
  /\ autoencoder_param.inference_type = "linear_interpolation"
  /\ twin.autoencoder_param.inference_type = "reconstruct"
  /\ Len(twin.sampler) = 1
  /\ Len(twin.outputs_collector) > 0
  /\ twin.last_result.n = MaxBatches
  /\ twin.last_result.returned = "True"

====
